---- MODULE Spec2Model ----
(***************************************************************************)
(* tavla: the process-backed speech handle of src/child.rs.                *)
(*                                                                         *)
(* A Speech owns a Mutex<State>; State is Running(child), Done(status) or  *)
(* Cancelled.  Threads call is_done, await_done (both &self) and cancel    *)
(* (&mut self) on one handle while the child process runs, exits by        *)
(* itself, or is killed.                                                   *)
(*                                                                         *)
(* The markup tokenizer of src/token.rs is the second part: a Tokenizer    *)
(* holds the unconsumed rest of its source and the current Style, and      *)
(* next() hands out Normal, Emphasised and Pause tokens.  Strings are      *)
(* sequences of characters.                                                *)
(*                                                                         *)
(* The espeak speech of src/espeak.rs is the third part: a Speech holds a  *)
(* Mutex<Child> and an AtomicBool done flag, and await_done, is_done and   *)
(* cancel all take &self, so that calls of several threads interleave at   *)
(* their lock and flag accesses.                                           *)
(***************************************************************************)
EXTENDS Integers, Sequences, FiniteSets, TLC

\* Number of threads sharing one handle.
NThreads == 2
Threads == 1..NThreads

\* child.rs:10  const CANCEL_GRACE_TIMEOUT: Duration = Duration::from_millis(300)
CANCEL_GRACE_TIMEOUT == 300

\* Option<T>: None is the empty sequence, Some(x) the one-element sequence.
None == <<>>
Some(x) == <<x>>

\* State (child.rs:85-89)
Running == [tag |-> "Running"]
Done(status) == [tag |-> "Done", status |-> status]
Cancelled == [tag |-> "Cancelled"]
ExitStatuses == {"success", "failure"}
States == {Running, Cancelled} \cup {Done(s) : s \in ExitStatuses}

\* Results of the three operations, plus the bookkeeping values of a call
\* that has not returned ("pending") or that unwound ("panic").
OkTrue == "Ok(true)"
OkFalse == "Ok(false)"
OkUnit == "Ok(())"
ErrExitFailure == "Err(ExitFailure)"
ErrCancelIgnored == "Err(CancelIgnored)"
ErrCannotAwait == "Err(CannotAwait)"
ErrCannotCancel == "Err(CannotCancel)"

VARIABLES
    proc,             \* the OS process: "alive", or exited with "success"/"failure"
    signals,          \* termination signals sent by the current (or last) cancel call
    state,            \* Speech.state, the value inside the mutex
    lock,             \* holder of the mutex (a thread), or 0 when free
    pc,               \* per thread: position inside the current call
    call,             \* per thread: the current (or last) operation
    ret,              \* per thread: the value the last call returned
    attempt,          \* State::cancel: loop counter `attempt`
    remaining,        \* State::cancel: `remaining_wait_time`
    visible,          \* history: state as of the last release of the mutex
    seenTrue,         \* history: some is_done call has returned Ok(true)
    errSeen,          \* history: some call has returned Err(ExitFailure)
    cancelRequested,  \* history: some cancel call has started
    failBeforeCancel, \* history: the process exited with failure before any cancel
    prevCancel,       \* history: result of the last completed cancel call
    slices,           \* history: the wait slices slept by the current (or last) cancel call
    poisoned,         \* the mutex's poison flag, set when a thread panics holding the guard
    ioFailure,        \* history: the system call that failed ("none", "try_wait", "kill")
    source,           \* the text handed to Tokenizer::new
    rest,             \* Tokenizer.rest
    style,            \* Tokenizer.style
    tpc,              \* position inside the current call of Tokenizer::next
    result,           \* the value the last call of next() returned
    tokens,           \* history: the tokens returned so far, in order
    exhausted,        \* history: some call of next() has returned None
    restAtCall,       \* history: rest when the current (or last) call of next() began
    procAtNew,        \* history: what the probe of Speech::new saw of the process
    eproc,            \* espeak: the OS process, "alive" or exited with "success"/"failure"
    ekills,           \* espeak: kill signals sent to the process
    elock,            \* espeak: holder of Speech.child's mutex (a thread), or 0 when free
    edone,            \* espeak: Speech.done
    epc,              \* espeak, per thread: position inside the current call
    ecall,            \* espeak, per thread: the current (or last) operation
    eret,             \* espeak, per thread: the value the last call returned
    eobserved,        \* espeak, history: try_wait or wait has reported the exit
    ecancelled,       \* espeak, history: some cancel call has returned Ok(())
    eafter            \* espeak, history, per thread: the call began after such a cancel

\* The variables of the speech handle and those of the tokenizer.
speechVars == <<proc, signals, state, lock, pc, call, ret, attempt, remaining,
                visible, seenTrue, errSeen, cancelRequested, failBeforeCancel,
                prevCancel, slices, poisoned, ioFailure, procAtNew>>
espeakVars == <<eproc, ekills, elock, edone, epc, ecall, eret, eobserved, ecancelled,
                eafter>>
tokVars == <<source, rest, style, tpc, result, tokens, exhausted, restAtCall>>

vars == <<proc, signals, state, lock, pc, call, ret, attempt, remaining,
          visible, seenTrue, errSeen, cancelRequested, failBeforeCancel,
          prevCancel, slices, poisoned, ioFailure,
          source, rest, style, tpc, result, tokens, exhausted, restAtCall,
          procAtNew, eproc, ekills, elock, edone, epc, ecall, eret, eobserved,
          ecancelled, eafter>>

hist == <<visible, seenTrue, errSeen, cancelRequested, failBeforeCancel,
          prevCancel>>

CancelPcs == {"cancel_lock", "cancel_update", "cancel_kill", "cancel_recheck",
              "cancel_loop", "cancel_sleep", "cancel_match"}
IsDonePcs == {"is_done_lock", "is_done_update", "is_done_ret"}
Pcs == {"idle", "panicked", "await_sleep"} \cup IsDonePcs \cup CancelPcs

----------------------------------------------------------------------------
\* Pure helpers

\* Child::try_wait as called in State::update: Some(status) once the process
\* has exited, None while it is alive.
TryWait(p) == IF p = "alive" THEN None ELSE Some(p)

\* Variant of update that clears a recorded failure when it is looked at again.
StateUpdate_FailureOnce(s, p) ==
    IF s.tag = "Running"
    THEN IF TryWait(p) # None THEN Done(TryWait(p)[1]) ELSE s
    ELSE IF s.tag = "Done" /\ s.status = "failure" THEN Cancelled ELSE s

\* Variant of update that misses the exit of the process.
StateUpdate_ExitMissed(s, p) == s

\* State::update (child.rs:96-109)
StateUpdate(s, p) ==
    IF s.tag = "Running"
    THEN IF TryWait(p) # None THEN Done(TryWait(p)[1]) ELSE s
    ELSE s

\* Variants of exited_successfully with one arm wrong.
ExitedSuccessfully_CancelledNotDone(s) ==
    CASE s.tag = "Running" -> OkFalse
      [] s.tag = "Done" -> IF s.status = "success" THEN OkTrue ELSE ErrExitFailure
      [] s.tag = "Cancelled" -> OkFalse

ExitedSuccessfully_FailureSwallowed(s) ==
    CASE s.tag = "Running" -> OkFalse
      [] s.tag = "Done" -> OkTrue
      [] s.tag = "Cancelled" -> OkTrue

ExitedSuccessfully_RunningIsDone(s) ==
    CASE s.tag = "Running" -> OkTrue
      [] s.tag = "Done" -> IF s.status = "success" THEN OkTrue ELSE ErrExitFailure
      [] s.tag = "Cancelled" -> OkTrue

ExitedSuccessfully_CancelledIsFailure(s) ==
    CASE s.tag = "Running" -> OkFalse
      [] s.tag = "Done" -> IF s.status = "success" THEN OkTrue ELSE ErrExitFailure
      [] s.tag = "Cancelled" -> ErrExitFailure

\* State::exited_successfully (child.rs:111-123)
ExitedSuccessfully(s) ==
    CASE s.tag = "Running" -> OkFalse
      [] s.tag = "Done" -> IF s.status = "success" THEN OkTrue ELSE ErrExitFailure
      [] s.tag = "Cancelled" -> OkTrue

\* CANCEL_GRACE_WAIT_SLICE_BASE.powi(attempt) for the base 2.3 (child.rs:12),
\* in fixed point with five decimals.
RECURSIVE PowiScaled(_)
PowiScaled(k) == IF k = 1 THEN 230000 ELSE (PowiScaled(k - 1) * 23) \div 10

\* Variant of wanted_wait_time that does not grow with the attempt.
WantedWaitTime_NoGrowth(k) == (PowiScaled(1) + 50000) \div 100000

\* wanted_wait_time: powi(attempt).round() as u64 milliseconds (child.rs:143-145)
WantedWaitTime(k) == (PowiScaled(k) + 50000) \div 100000

\* Variant of min that does not cap the slice by the remaining time.
Min_NoCap(a, b) == a

\* wanted_wait_time.min(current_remaining) (child.rs:146)
Min(a, b) == IF a <= b THEN a ELSE b

----------------------------------------------------------------------------
\* The tokenizer (src/token.rs): data and pure helpers

\* Longest source text drawn from the alphabet.
MaxLen == 5

\* Characters: the period, the newline, a blank (standing for every other
\* whitespace character), the emphasis delimiter and two letters.
Alphabet == {".", "\n", " ", "_", "a", "b"}

\* Token (token.rs:2-9)
Normal(text) == [tag |-> "Normal", text |-> text]
Emphasised(text) == [tag |-> "Emphasised", text |-> text]
Pause(duration) == [tag |-> "Pause", duration |-> duration]

\* PauseDuration (token.rs:21-25)
Sentence == [tag |-> "Sentence"]
Paragraph == [tag |-> "Paragraph"]
Seconds(n) == [tag |-> "Seconds", n |-> n]

\* Variant of PauseDuration::from that looks at the periods only.
PauseDurationFrom_NewlinesIgnored(period_count, newline_count) ==
    CASE period_count = 0 -> None
      [] period_count = 1 -> Some(Sentence)
      [] period_count = 2 -> Some(Paragraph)
      [] OTHER -> Some(Seconds(period_count - 2))

\* PauseDuration::from (token.rs:28-39)
PauseDurationFrom(period_count, newline_count) ==
    IF newline_count > 1 /\ period_count < 2
    THEN Some(Paragraph)
    ELSE CASE period_count = 0 -> None
           [] period_count = 1 -> Some(Sentence)
           [] period_count = 2 -> Some(Paragraph)
           [] OTHER -> Some(Seconds(period_count - 2))

\* Variant of flip that only ever switches the emphasis off.
StyleFlip_OnlyOff(st) == "Unemphasised"

\* Style::flip (token.rs:51-57)
StyleFlip(st) == IF st = "Unemphasised" THEN "Emphasised" ELSE "Unemphasised"

\* Token::new (token.rs:12-17)
TokenNew(text, st) == IF st = "Emphasised" THEN Emphasised(text) ELSE Normal(text)

\* Variant of is_whitespace that knows the newline only.
IsWhitespace_NewlineOnly(c) == c = "\n"

\* char::is_whitespace, on the alphabet
IsWhitespace(c) == c \in {" ", "\n"}

\* &s[n..]
Drop(s, n) == SubSeq(s, n + 1, Len(s))

\* &s[0..n]
Take(s, n) == SubSeq(s, 1, n)

\* The least element of a non-empty set of numbers: what .next() yields on
\* an iterator over ascending indices.
MinOf(S) == CHOOSE x \in S : \A y \in S : x <= y

\* Variant of the scan of consume_leading_pause in which a blank that
\* follows a period ends the run.
FirstNonWhitespaceIdx_StopsAfterPeriod(s) ==
    LET stops == {i \in 1..Len(s) :
                     \/ ~(s[i] \in {".", "\n"} \/ IsWhitespace(s[i]))
                     \/ (i > 1 /\ s[i] = " " /\ s[i - 1] = ".")}
    IN IF stops = {} THEN Len(s) ELSE MinOf(stops) - 1

\* Variant of the scan of consume_leading_pause in which a newline ends the
\* run.
FirstNonWhitespaceIdx_NewlineStops(s) ==
    LET stops == {i \in 1..Len(s) : ~(s[i] = "." \/ s[i] = " ")}
    IN IF stops = {} THEN Len(s) ELSE MinOf(stops) - 1

\* consume_leading_pause, first_non_whitespace_idx (token.rs:89-108): the
\* index of the first character that is neither '.', '\n' nor whitespace,
\* or the length of the string.
FirstNonWhitespaceIdx(s) ==
    LET stops == {i \in 1..Len(s) : ~(s[i] \in {".", "\n"} \/ IsWhitespace(s[i]))}
    IN IF stops = {} THEN Len(s) ELSE MinOf(stops) - 1

\* Variant of the counters that counts only the characters at the very
\* start of the run.
CountChar_LeadingOnly(s, c) ==
    Cardinality({i \in 1..Len(s) : \A j \in 1..i : s[j] = c})

\* consume_leading_pause, pause_count and newline_count (token.rs:86-101):
\* the number of characters c among those the scan has passed.
CountChar(s, c) == Cardinality({i \in 1..Len(s) : s[i] = c})

\* consume_text, state_change (token.rs:118-124): the first (index,
\* character) whose character is '_', '.' or '\n', if there is one.
StateChange(s) ==
    LET stops == {i \in 1..Len(s) : s[i] \in {"_", ".", "\n"}}
    IN IF stops = {} THEN None ELSE Some(<<MinOf(stops) - 1, s[MinOf(stops)]>>)

RECURSIVE TrimEnd(_)

\* Variant of trim_end that leaves the text as it is.
TrimEnd_KeepsWhitespace(s) == s

\* str::trim_end
TrimEnd(s) ==
    IF s # <<>> /\ IsWhitespace(s[Len(s)]) THEN TrimEnd(Take(s, Len(s) - 1)) ELSE s

\* Variant of next_char_idx that does not step over the emphasis delimiter.
NextCharIdx_NoSkip(s) == 0

\* Variant of next_char_idx that steps over the character after the
\* delimiter as well.
NextCharIdx_SkipsTwo(s) == IF Len(s) >= 3 THEN 2 ELSE Len(s)

\* consume_text, next_char_idx (token.rs:136-142): the index of the second
\* character, or the length of the string.
NextCharIdx(s) == IF Len(s) >= 2 THEN 1 ELSE Len(s)

\* Variant of the end of consume_text that wraps the remaining text without
\* looking at it.
RemainingToken_EmptyEmitted(text, st) == Some(TokenNew(text, st))

\* consume_text, the result for the rest of the string (token.rs:155-159)
RemainingToken(text, st) ==
    IF text = <<>> THEN None ELSE Some(TokenNew(text, st))

\* Source texts of the tests and of the examples, as character sequences.
PlainEmph ==
    <<"p", "l", "a", "i", "n", " ", ".", ".", ".", " ",
      "_", "e", "m", "p", "h", "_", ".", " ", ".", ".">>
HiThere == <<"h", "i", " ", "_", "t", "h", "e", "r", "e">>
HolodrioThereDot ==
    <<"h", "o", "l", "o", "d", "r", "i", "o", " ", "_", "t", "h", "e", "r", "e", ".">>
Samples == {PlainEmph, HiThere, HolodrioThereDot}

\* The source texts a tokenizer is constructed from.
Sources == UNION {[1..n -> Alphabet] : n \in 0..MaxLen} \cup Samples

\* No tokenizer has been constructed.
TokenizerUnused ==
    /\ source = <<>>
    /\ rest = <<>>
    /\ style = "Unemphasised"
    /\ tpc = "idle"
    /\ result = None
    /\ tokens = <<>>
    /\ exhausted = FALSE
    /\ restAtCall = <<>>

\* No espeak speech has been constructed.
EspeakUnused ==
    /\ eproc = "alive"
    /\ ekills = 0
    /\ elock = 0
    /\ edone = FALSE
    /\ epc = [t \in Threads |-> "idle"]
    /\ ecall = [t \in Threads |-> "none"]
    /\ eret = [t \in Threads |-> "none"]
    /\ eobserved = FALSE
    /\ ecancelled = FALSE
    /\ eafter = [t \in Threads |-> FALSE]

----------------------------------------------------------------------------
\* Speech::new (child.rs:19-28): Running, then probed once.
Init ==
    /\ proc \in {"alive", "success", "failure"}
    /\ signals = 0
    /\ state = StateUpdate(Running, proc)
    /\ lock = 0
    /\ pc = [t \in Threads |-> "idle"]
    /\ call = [t \in Threads |-> "none"]
    /\ ret = [t \in Threads |-> "none"]
    /\ attempt = 0
    /\ remaining = None
    /\ visible = state
    /\ seenTrue = FALSE
    /\ errSeen = FALSE
    /\ cancelRequested = FALSE
    /\ failBeforeCancel = (proc = "failure")
    /\ prevCancel = "none"
    /\ slices = <<>>
    /\ poisoned = FALSE
    /\ ioFailure = "none"
    /\ procAtNew = proc
    /\ TokenizerUnused
    /\ EspeakUnused

\* The process exits by itself, or after a termination signal.  The status
\* after a signal may still be the one of a regular exit that raced it.
ProcExit ==
    /\ proc = "alive"
    /\ \E s \in ExitStatuses : proc' = s
    /\ failBeforeCancel' = (failBeforeCancel \/ (proc' = "failure" /\ ~cancelRequested))
    /\ UNCHANGED <<tokVars, espeakVars, procAtNew, slices, poisoned, ioFailure, signals, state, lock, pc, call, ret, attempt, remaining,
                   visible, seenTrue, errSeen, cancelRequested, prevCancel>>

InCancel(t) == pc[t] \in CancelPcs
Quiet(t) == pc[t] \in {"idle", "panicked"}

\* A call to is_done(&self) starts (child.rs:61).
CallIsDone(t) ==
    /\ pc[t] = "idle"
    /\ \A u \in Threads : ~InCancel(u)
    /\ pc' = [pc EXCEPT ![t] = "is_done_lock"]
    /\ call' = [call EXCEPT ![t] = "is_done"]
    /\ ret' = [ret EXCEPT ![t] = "pending"]
    /\ UNCHANGED <<tokVars, espeakVars, procAtNew, slices, poisoned, ioFailure, proc, signals, state, lock, attempt, remaining, hist>>

\* A call to await_done(&self) starts (child.rs:42); its loop begins with is_done.
CallAwaitDone(t) ==
    /\ pc[t] = "idle"
    /\ \A u \in Threads : ~InCancel(u)
    /\ pc' = [pc EXCEPT ![t] = "is_done_lock"]
    /\ call' = [call EXCEPT ![t] = "await_done"]
    /\ ret' = [ret EXCEPT ![t] = "pending"]
    /\ UNCHANGED <<tokVars, espeakVars, procAtNew, slices, poisoned, ioFailure, proc, signals, state, lock, attempt, remaining, hist>>

\* A call to cancel(&mut self) starts (child.rs:75): the exclusive borrow
\* means no other call on the handle is in flight.
CallCancel(t) ==
    /\ pc[t] = "idle"
    /\ \A u \in Threads \ {t} : Quiet(u)
    /\ pc' = [pc EXCEPT ![t] = "cancel_lock"]
    /\ call' = [call EXCEPT ![t] = "cancel"]
    /\ ret' = [ret EXCEPT ![t] = "pending"]
    /\ cancelRequested' = TRUE
    /\ signals' = 0
    /\ slices' = <<>>
    /\ UNCHANGED <<tokVars, espeakVars, procAtNew, poisoned, ioFailure, proc, state, lock, attempt, remaining,
                   visible, seenTrue, errSeen, failBeforeCancel, prevCancel>>

\* Speech::is_done, try_lock().expect(..) (child.rs:62-65): panics when the
\* mutex is held or poisoned.
IsDoneTryLock(t) ==
    /\ pc[t] = "is_done_lock"
    /\ IF lock = 0 /\ ~poisoned
       THEN /\ lock' = t
            /\ pc' = [pc EXCEPT ![t] = "is_done_update"]
            /\ ret' = ret
       ELSE /\ lock' = lock
            /\ pc' = [pc EXCEPT ![t] = "panicked"]
            /\ ret' = [ret EXCEPT ![t] = "panic"]
    /\ UNCHANGED <<tokVars, espeakVars, procAtNew, slices, poisoned, ioFailure, proc, signals, state, call, attempt, remaining, hist>>

\* Speech::is_done, state.update() (child.rs:67)
IsDoneUpdate(t) ==
    /\ pc[t] = "is_done_update"
    /\ state' = StateUpdate(state, proc)
    /\ pc' = [pc EXCEPT ![t] = "is_done_ret"]
    /\ UNCHANGED <<tokVars, espeakVars, procAtNew, slices, poisoned, ioFailure, proc, signals, lock, call, ret, attempt, remaining, hist>>

\* Speech::is_done, state.exited_successfully() and the release of the guard
\* (child.rs:68-69); for await_done, the loop body around it (child.rs:43-54).
IsDoneReturn(t) ==
    /\ pc[t] = "is_done_ret"
    /\ lock' = 0
    /\ visible' = state
    /\ LET r == ExitedSuccessfully(state) IN
       IF call[t] = "is_done"
       THEN /\ pc' = [pc EXCEPT ![t] = "idle"]
            /\ ret' = [ret EXCEPT ![t] = r]
            /\ seenTrue' = (seenTrue \/ r = OkTrue)
            /\ errSeen' = (errSeen \/ r = ErrExitFailure)
       ELSE /\ seenTrue' = seenTrue
            /\ CASE r = OkTrue ->
                      /\ pc' = [pc EXCEPT ![t] = "idle"]
                      /\ ret' = [ret EXCEPT ![t] = OkUnit]
                      /\ errSeen' = errSeen
                 [] r = ErrExitFailure ->
                      /\ pc' = [pc EXCEPT ![t] = "idle"]
                      /\ ret' = [ret EXCEPT ![t] = ErrExitFailure]
                      /\ errSeen' = TRUE
                 [] r = OkFalse ->
                      /\ pc' = [pc EXCEPT ![t] = "await_sleep"]
                      /\ ret' = ret
                      /\ errSeen' = errSeen
    /\ UNCHANGED <<tokVars, espeakVars, procAtNew, slices, poisoned, ioFailure, proc, signals, state, call, attempt, remaining,
                   cancelRequested, failBeforeCancel, prevCancel>>

\* Speech::await_done, sleep(AWAIT_DONE_CHECK_INTERVAL) (child.rs:53), then
\* the next round of the loop.
AwaitSleep(t) ==
    /\ pc[t] = "await_sleep"
    /\ pc' = [pc EXCEPT ![t] = "is_done_lock"]
    /\ UNCHANGED <<tokVars, espeakVars, procAtNew, slices, poisoned, ioFailure, proc, signals, state, lock, call, ret, attempt, remaining, hist>>

\* Speech::cancel, try_lock().expect(..) (child.rs:76-79)
CancelTryLock(t) ==
    /\ pc[t] = "cancel_lock"
    /\ IF lock = 0 /\ ~poisoned
       THEN /\ lock' = t
            /\ pc' = [pc EXCEPT ![t] = "cancel_update"]
            /\ ret' = ret
       ELSE /\ lock' = lock
            /\ pc' = [pc EXCEPT ![t] = "panicked"]
            /\ ret' = [ret EXCEPT ![t] = "panic"]
    /\ UNCHANGED <<tokVars, espeakVars, procAtNew, slices, poisoned, ioFailure, proc, signals, state, call, attempt, remaining, hist>>

\* State::cancel, the initial self.update() and the test for Running
\* (child.rs:126-127); the wait loop starts with attempt 1 and the whole
\* grace period (child.rs:137-138).
CancelUpdate(t) ==
    /\ pc[t] = "cancel_update"
    /\ state' = StateUpdate(state, proc)
    /\ IF state'.tag = "Running"
       THEN /\ pc' = [pc EXCEPT ![t] = "cancel_kill"]
            /\ UNCHANGED <<attempt, remaining>>
       ELSE /\ pc' = [pc EXCEPT ![t] = "cancel_loop"]
            /\ attempt' = 1
            /\ remaining' = Some(CANCEL_GRACE_TIMEOUT)
    /\ UNCHANGED <<tokVars, espeakVars, procAtNew, slices, poisoned, ioFailure, proc, signals, lock, call, ret, hist>>

\* State::cancel, child.kill() (child.rs:128-130)
CancelKill(t) ==
    /\ pc[t] = "cancel_kill"
    /\ signals' = signals + 1
    /\ pc' = [pc EXCEPT ![t] = "cancel_recheck"]
    /\ UNCHANGED <<tokVars, espeakVars, procAtNew, slices, poisoned, ioFailure, proc, state, lock, call, ret, attempt, remaining, hist>>

\* Variant of the recheck in which a cancel call that follows a timed-out one
\* inherits the used-up grace period instead of starting a new one.
CancelRecheck_GraceNotRestarted(t) ==
    /\ pc[t] = "cancel_recheck"
    /\ state' = StateUpdate(state, proc)
    /\ pc' = [pc EXCEPT ![t] = "cancel_loop"]
    /\ attempt' = IF prevCancel = ErrCancelIgnored THEN attempt ELSE 1
    /\ remaining' = IF prevCancel = ErrCancelIgnored THEN None
                     ELSE Some(CANCEL_GRACE_TIMEOUT)
    /\ UNCHANGED <<tokVars, espeakVars, procAtNew, slices, poisoned, ioFailure, proc, signals, lock, call, ret, hist>>

\* Variant of the recheck that does not probe the process before the wait
\* loop.
CancelRecheck_NoProbe(t) ==
    /\ pc[t] = "cancel_recheck"
    /\ state' = state
    /\ pc' = [pc EXCEPT ![t] = "cancel_loop"]
    /\ attempt' = 1
    /\ remaining' = Some(CANCEL_GRACE_TIMEOUT)
    /\ UNCHANGED <<tokVars, espeakVars, procAtNew, slices, poisoned, ioFailure, proc, signals, lock, call, ret, hist>>

\* State::cancel, self.update() right after the signal (child.rs:133)
CancelRecheck(t) ==
    /\ pc[t] = "cancel_recheck"
    /\ state' = StateUpdate(state, proc)
    /\ pc' = [pc EXCEPT ![t] = "cancel_loop"]
    /\ attempt' = 1
    /\ remaining' = Some(CANCEL_GRACE_TIMEOUT)
    /\ UNCHANGED <<tokVars, espeakVars, procAtNew, slices, poisoned, ioFailure, proc, signals, lock, call, ret, hist>>

\* Variant of the loop head that, once the grace period is used up, assumes
\* the process is gone: it sets Cancelled and returns Ok(()).
CancelLoop_TimeoutForcesCancelled(t) ==
    /\ pc[t] = "cancel_loop"
    /\ IF state.tag = "Running"
       THEN IF remaining # None
            THEN LET current_remaining == remaining[1]
                     wanted_wait_time == WantedWaitTime(attempt)
                     actual_wait_time == Min(wanted_wait_time, current_remaining)
                 IN /\ remaining' = IF wanted_wait_time >= current_remaining
                                    THEN None
                                    ELSE Some(current_remaining - actual_wait_time)
                    /\ slices' = Append(slices, actual_wait_time)
                    /\ pc' = [pc EXCEPT ![t] = "cancel_sleep"]
                    /\ UNCHANGED <<state, lock, ret, visible, prevCancel>>
            ELSE /\ pc' = [pc EXCEPT ![t] = "idle"]
                 /\ ret' = [ret EXCEPT ![t] = OkUnit]
                 /\ lock' = 0
                 /\ state' = Cancelled
                 /\ visible' = Cancelled
                 /\ prevCancel' = OkUnit
                 /\ UNCHANGED <<remaining, slices>>
       ELSE /\ pc' = [pc EXCEPT ![t] = "cancel_match"]
            /\ UNCHANGED <<state, lock, ret, visible, prevCancel, remaining, slices>>
    /\ UNCHANGED <<tokVars, espeakVars, procAtNew, poisoned, ioFailure, proc, signals, call, attempt,
                   seenTrue, errSeen, cancelRequested, failBeforeCancel>>

\* State::cancel, head of one round of the wait loop (child.rs:138-161):
\* while Running, sleep one slice if time remains, else break and return
\* Err(cancel_ignored()) (child.rs:175).
CancelLoop(t) ==
    /\ pc[t] = "cancel_loop"
    /\ IF state.tag = "Running"
       THEN IF remaining # None
            THEN LET current_remaining == remaining[1]
                     wanted_wait_time == WantedWaitTime(attempt)
                     actual_wait_time == Min(wanted_wait_time, current_remaining)
                 IN /\ remaining' = IF wanted_wait_time >= current_remaining
                                    THEN None
                                    ELSE Some(current_remaining - actual_wait_time)
                    /\ slices' = Append(slices, actual_wait_time)
                    /\ pc' = [pc EXCEPT ![t] = "cancel_sleep"]
                    /\ UNCHANGED <<lock, ret, visible, prevCancel>>
            ELSE /\ pc' = [pc EXCEPT ![t] = "idle"]
                 /\ ret' = [ret EXCEPT ![t] = ErrCancelIgnored]
                 /\ lock' = 0
                 /\ visible' = state
                 /\ prevCancel' = ErrCancelIgnored
                 /\ UNCHANGED <<remaining, slices>>
       ELSE /\ pc' = [pc EXCEPT ![t] = "cancel_match"]
            /\ UNCHANGED <<lock, ret, visible, prevCancel, remaining, slices>>
    /\ UNCHANGED <<tokVars, espeakVars, procAtNew, poisoned, ioFailure, proc, signals, state, call, attempt,
                   seenTrue, errSeen, cancelRequested, failBeforeCancel>>

\* Variant of the wake-up that signals the process again when it is still
\* running.
CancelSleep_KillsAgain(t) ==
    /\ pc[t] = "cancel_sleep"
    /\ state' = StateUpdate(state, proc)
    /\ signals' = IF state'.tag = "Running" THEN signals + 1 ELSE signals
    /\ pc' = [pc EXCEPT ![t] = "cancel_match"]
    /\ UNCHANGED <<tokVars, espeakVars, procAtNew, slices, poisoned, ioFailure, proc, lock, call, ret, attempt, remaining, hist>>

\* State::cancel, the end of sleep(actual_wait_time) and the self.update()
\* after it (child.rs:148-157)
CancelSleep(t) ==
    /\ pc[t] = "cancel_sleep"
    /\ state' = StateUpdate(state, proc)
    /\ pc' = [pc EXCEPT ![t] = "cancel_match"]
    /\ UNCHANGED <<tokVars, espeakVars, procAtNew, slices, poisoned, ioFailure, proc, signals, lock, call, ret, attempt, remaining, hist>>

\* Variant of the match whose Cancelled arm leaves the loop instead of
\* returning Ok(()), and so ends in Err(cancel_ignored()).
CancelMatch_CancelledBreaks(t) ==
    /\ pc[t] = "cancel_match"
    /\ CASE state.tag = "Running" ->
              /\ attempt' = attempt + 1
              /\ pc' = [pc EXCEPT ![t] = "cancel_loop"]
              /\ UNCHANGED <<state, lock, ret, visible, prevCancel>>
         [] state.tag = "Cancelled" ->
              /\ pc' = [pc EXCEPT ![t] = "idle"]
              /\ ret' = [ret EXCEPT ![t] = ErrCancelIgnored]
              /\ lock' = 0
              /\ visible' = state
              /\ prevCancel' = ErrCancelIgnored
              /\ UNCHANGED <<state, attempt>>
         [] state.tag = "Done" ->
              /\ state' = Cancelled
              /\ pc' = [pc EXCEPT ![t] = "idle"]
              /\ ret' = [ret EXCEPT ![t] = OkUnit]
              /\ lock' = 0
              /\ visible' = Cancelled
              /\ prevCancel' = OkUnit
              /\ UNCHANGED attempt
    /\ UNCHANGED <<tokVars, espeakVars, procAtNew, slices, poisoned, ioFailure, proc, signals, call, remaining,
                   seenTrue, errSeen, cancelRequested, failBeforeCancel>>

\* Variant of the match whose Done arm returns Ok(()) without recording the
\* cancellation.
CancelMatch_DoneKept(t) ==
    /\ pc[t] = "cancel_match"
    /\ CASE state.tag = "Running" ->
              /\ attempt' = attempt + 1
              /\ pc' = [pc EXCEPT ![t] = "cancel_loop"]
              /\ UNCHANGED <<state, lock, ret, visible, prevCancel>>
         [] state.tag \in {"Cancelled", "Done"} ->
              /\ pc' = [pc EXCEPT ![t] = "idle"]
              /\ ret' = [ret EXCEPT ![t] = OkUnit]
              /\ lock' = 0
              /\ visible' = state
              /\ prevCancel' = OkUnit
              /\ UNCHANGED <<state, attempt>>
    /\ UNCHANGED <<tokVars, espeakVars, procAtNew, slices, poisoned, ioFailure, proc, signals, call, remaining,
                   seenTrue, errSeen, cancelRequested, failBeforeCancel>>

\* State::cancel, the match at the end of one round (child.rs:163-171)
CancelMatch(t) ==
    /\ pc[t] = "cancel_match"
    /\ CASE state.tag = "Running" ->
              /\ attempt' = attempt + 1
              /\ pc' = [pc EXCEPT ![t] = "cancel_loop"]
              /\ UNCHANGED <<state, lock, ret, visible, prevCancel>>
         [] state.tag = "Cancelled" ->
              /\ pc' = [pc EXCEPT ![t] = "idle"]
              /\ ret' = [ret EXCEPT ![t] = OkUnit]
              /\ lock' = 0
              /\ visible' = state
              /\ prevCancel' = OkUnit
              /\ UNCHANGED <<state, attempt>>
         [] state.tag = "Done" ->
              /\ state' = Cancelled
              /\ pc' = [pc EXCEPT ![t] = "idle"]
              /\ ret' = [ret EXCEPT ![t] = OkUnit]
              /\ lock' = 0
              /\ visible' = Cancelled
              /\ prevCancel' = OkUnit
              /\ UNCHANGED attempt
    /\ UNCHANGED <<tokVars, espeakVars, procAtNew, slices, poisoned, ioFailure, proc, signals, call, remaining,
                   seenTrue, errSeen, cancelRequested, failBeforeCancel>>

\* Child::try_wait returns Err inside State::update: the .expect(..) panics
\* (child.rs:99-101) while the guard is held, which poisons the mutex.
\* update queries the process only in state Running.
TryWaitFails(t) ==
    /\ pc[t] \in {"is_done_update", "cancel_update", "cancel_recheck", "cancel_sleep"}
    /\ state.tag = "Running"
    /\ pc' = [pc EXCEPT ![t] = "panicked"]
    /\ ret' = [ret EXCEPT ![t] = "panic"]
    /\ lock' = 0
    /\ poisoned' = TRUE
    /\ ioFailure' = "try_wait"
    /\ UNCHANGED <<tokVars, espeakVars, procAtNew, proc, signals, state, call, attempt, remaining, slices, hist>>

\* Child::kill returns Err inside State::cancel: the .expect(..) panics
\* (child.rs:128-130) while the guard is held.
KillFails(t) ==
    /\ pc[t] = "cancel_kill"
    /\ pc' = [pc EXCEPT ![t] = "panicked"]
    /\ ret' = [ret EXCEPT ![t] = "panic"]
    /\ lock' = 0
    /\ poisoned' = TRUE
    /\ ioFailure' = "kill"
    /\ UNCHANGED <<tokVars, espeakVars, procAtNew, proc, signals, state, call, attempt, remaining, slices, hist>>


----------------------------------------------------------------------------
\* The steps of a call in flight on thread t.
Step(t) ==
    \/ IsDoneTryLock(t)
    \/ IsDoneUpdate(t)
    \/ IsDoneReturn(t)
    \/ AwaitSleep(t)
    \/ CancelTryLock(t)
    \/ CancelUpdate(t)
    \/ CancelKill(t)
    \/ CancelRecheck(t)
    \/ CancelLoop(t)
    \/ CancelSleep(t)
    \/ CancelMatch(t)

Next ==
    \/ ProcExit
    \/ \E t \in Threads : CallIsDone(t)
    \/ \E t \in Threads : CallAwaitDone(t)
    \/ \E t \in Threads : CallCancel(t)
    \/ \E t \in Threads : Step(t)

Spec == Init /\ [][Next]_vars

\* The same handle in an environment where the system calls on the child
\* process may fail.
IoNext ==
    \/ Next
    \/ \E t \in Threads : TryWaitFails(t)
    \/ \E t \in Threads : KillFails(t)

IoSpec == Init /\ [][IoNext]_vars

\* Threads inside a call keep being scheduled.
FairSpec == Spec /\ \A t \in Threads : WF_vars(Step(t))

TypeOK ==
    /\ proc \in {"alive", "success", "failure"}
    /\ signals \in 0..1
    /\ state \in States
    /\ lock \in {0} \cup Threads
    /\ pc \in [Threads -> Pcs]
    /\ call \in [Threads -> {"none", "is_done", "await_done", "cancel"}]
    /\ attempt \in 0..8
    /\ remaining \in {None} \cup {Some(d) : d \in 0..CANCEL_GRACE_TIMEOUT}
    /\ slices \in Seq(0..CANCEL_GRACE_TIMEOUT) /\ Len(slices) <= 7
    /\ poisoned \in BOOLEAN
    /\ ioFailure \in {"none", "try_wait", "kill"}

----------------------------------------------------------------------------
\* The tokenizer (src/token.rs): Tokenizer::new and the steps of next()

\* No speech handle is in use.
SpeechUnused ==
    /\ proc = "alive"
    /\ signals = 0
    /\ state = Running
    /\ lock = 0
    /\ pc = [t \in Threads |-> "idle"]
    /\ call = [t \in Threads |-> "none"]
    /\ ret = [t \in Threads |-> "none"]
    /\ attempt = 0
    /\ remaining = None
    /\ visible = Running
    /\ seenTrue = FALSE
    /\ errSeen = FALSE
    /\ cancelRequested = FALSE
    /\ failBeforeCancel = FALSE
    /\ prevCancel = "none"
    /\ slices = <<>>
    /\ poisoned = FALSE
    /\ ioFailure = "none"
    /\ procAtNew = "alive"

\* Tokenizer::new (token.rs:66-71)
TokenizerNew ==
    /\ source \in Sources
    /\ rest = source
    /\ style = "Unemphasised"
    /\ tpc = "idle"
    /\ result = None
    /\ tokens = <<>>
    /\ exhausted = FALSE
    /\ restAtCall = source
    /\ SpeechUnused
    /\ EspeakUnused

\* next() hands r to its caller.
TokReturn(r) ==
    /\ tpc' = "idle"
    /\ result' = r
    /\ tokens' = IF r = None THEN tokens ELSE Append(tokens, r[1])
    /\ exhausted' = (exhausted \/ r = None)

\* The caller calls next() (token.rs:167).
CallNext ==
    /\ tpc = "idle"
    /\ tpc' = "next"
    /\ restAtCall' = rest
    /\ UNCHANGED <<source, rest, style, result, tokens, exhausted, speechVars, espeakVars>>

\* Variant of next() that takes a rest of one character for an empty one.
TokenizerNext_NoneEarly ==
    /\ tpc = "next"
    /\ IF Len(rest) <= 1
       THEN TokReturn(None)
       ELSE /\ tpc' = "leading_pause"
            /\ UNCHANGED <<result, tokens, exhausted>>
    /\ UNCHANGED <<source, rest, style, restAtCall, speechVars, espeakVars>>

\* Iterator::next (token.rs:167-173), entered from the caller or from
\* consume_text: None on an empty rest, else consume_token.
TokenizerNext ==
    /\ tpc = "next"
    /\ IF rest = <<>>
       THEN TokReturn(None)
       ELSE /\ tpc' = "leading_pause"
            /\ UNCHANGED <<result, tokens, exhausted>>
    /\ UNCHANGED <<source, rest, style, restAtCall, speechVars, espeakVars>>

\* consume_leading_pause (token.rs:85-113) and the or_else of consume_token
\* (token.rs:76-77): a pause token is returned, without one consume_text
\* goes on.
ConsumeLeadingPause ==
    /\ tpc = "leading_pause"
    /\ LET first_non_whitespace_idx == FirstNonWhitespaceIdx(rest)
           passed == Take(rest, first_non_whitespace_idx)
           pause_count == CountChar(passed, ".")
           newline_count == CountChar(passed, "\n")
           leading_pause == PauseDurationFrom(pause_count, newline_count)
       IN /\ rest' = Drop(rest, first_non_whitespace_idx)
          /\ IF leading_pause # None
             THEN TokReturn(Some(Pause(leading_pause[1])))
             ELSE /\ tpc' = "text"
                  /\ UNCHANGED <<result, tokens, exhausted>>
    /\ UNCHANGED <<source, style, restAtCall, speechVars, espeakVars>>

\* consume_text (token.rs:117-161)
ConsumeText ==
    /\ tpc = "text"
    /\ LET state_change == StateChange(rest) IN
       IF state_change # None
       THEN LET token_end_idx == state_change[1][1]
                c == state_change[1][2]
            IN IF token_end_idx > 0
               THEN /\ rest' = Drop(rest, token_end_idx)
                    /\ style' = style
                    /\ TokReturn(Some(TokenNew(TrimEnd(Take(rest, token_end_idx)), style)))
               ELSE IF c = "_"
               THEN /\ style' = StyleFlip(style)
                    /\ rest' = Drop(rest, NextCharIdx(Drop(rest, token_end_idx)))
                    /\ tpc' = "next"
                    /\ UNCHANGED <<result, tokens, exhausted>>
               ELSE /\ tpc' = "panicked"
                    /\ UNCHANGED <<rest, style, result, tokens, exhausted>>
       ELSE /\ rest' = Drop(rest, Len(rest))
            /\ style' = style
            /\ TokReturn(RemainingToken(TrimEnd(Take(rest, Len(rest))), style))
    /\ UNCHANGED <<source, restAtCall, speechVars, espeakVars>>

TokNext ==
    \/ CallNext
    \/ TokenizerNext
    \/ ConsumeLeadingPause
    \/ ConsumeText

TokSpec == TokenizerNew /\ [][TokNext]_vars

\* A call of next() runs on the thread of its caller until it returns.
TokFairSpec == TokSpec /\ WF_vars(TokenizerNext \/ ConsumeLeadingPause \/ ConsumeText)

TokTypeOK ==
    /\ source \in Sources
    /\ style \in {"Unemphasised", "Emphasised"}
    /\ tpc \in {"idle", "next", "leading_pause", "text", "panicked"}
    /\ Len(rest) <= Len(source)
    /\ Len(tokens) <= Len(source)
    /\ exhausted \in BOOLEAN

----------------------------------------------------------------------------
\* The espeak speech (src/espeak.rs, mod speech): a Mutex<Child> and the
\* AtomicBool done; is_done, await_done and cancel all take &self.

ErrCancelConflict == "Err(CancelConflict)"

EspeakPcs == {"idle", "await_lock", "await_wait", "is_done_load", "is_done_lock",
              "is_done_wait", "cancel_lock", "cancel_is_done", "cancel_kill",
              "cancel_store"}

\* Variant of the result of await_done that reports success whatever the
\* exit status.
AwaitResult_AlwaysOk(status) == OkUnit

\* await_done, the closure over the exit status (espeak.rs:142-149)
AwaitResult(status) == IF status = "success" THEN OkUnit ELSE ErrExitFailure

\* Speech::new (espeak.rs:108-118): done is whether try_wait reports an exit.
EspeakNew ==
    /\ eproc \in {"alive", "success", "failure"}
    /\ ekills = 0
    /\ elock = 0
    /\ edone = (TryWait(eproc) # None)
    /\ epc = [t \in Threads |-> "idle"]
    /\ ecall = [t \in Threads |-> "none"]
    /\ eret = [t \in Threads |-> "none"]
    /\ eobserved = (TryWait(eproc) # None)
    /\ ecancelled = FALSE
    /\ eafter = [t \in Threads |-> FALSE]
    /\ SpeechUnused
    /\ TokenizerUnused

\* The espeak process exits, by itself or killed.
EspeakProcExit ==
    /\ eproc = "alive"
    /\ \E s \in ExitStatuses : eproc' = s
    /\ UNCHANGED <<ekills, elock, edone, epc, ecall, eret, eobserved, ecancelled,
                   eafter, speechVars, tokVars>>

\* A call starts: await_done (espeak.rs:136), is_done (espeak.rs:154) or
\* cancel (espeak.rs:182).
EspeakCall(t) ==
    /\ epc[t] = "idle"
    /\ \E op \in {"await_done", "is_done", "cancel"} :
          /\ ecall' = [ecall EXCEPT ![t] = op]
          /\ epc' = [epc EXCEPT ![t] = CASE op = "await_done" -> "await_lock"
                                         [] op = "is_done" -> "is_done_load"
                                         [] op = "cancel" -> "cancel_lock"]
    /\ eret' = [eret EXCEPT ![t] = "pending"]
    /\ eafter' = [eafter EXCEPT ![t] = ecancelled]
    /\ UNCHANGED <<eproc, ekills, elock, edone, eobserved, ecancelled,
                   speechVars, tokVars>>

\* await_done, self.child.lock() (espeak.rs:137-139): blocks while the
\* mutex is held.
EspeakAwaitLock(t) ==
    /\ epc[t] = "await_lock"
    /\ elock = 0
    /\ elock' = t
    /\ epc' = [epc EXCEPT ![t] = "await_wait"]
    /\ UNCHANGED <<eproc, ekills, edone, ecall, eret, eobserved, ecancelled,
                   eafter, speechVars, tokVars>>

\* await_done, wait() returns once the process has exited; done is stored,
\* the status decides the result and the guard is dropped (espeak.rs:140-149).
EspeakAwaitWait(t) ==
    /\ epc[t] = "await_wait"
    /\ eproc # "alive"
    /\ edone' = TRUE
    /\ eobserved' = TRUE
    /\ eret' = [eret EXCEPT ![t] = AwaitResult(eproc)]
    /\ elock' = 0
    /\ epc' = [epc EXCEPT ![t] = "idle"]
    /\ UNCHANGED <<eproc, ekills, ecall, ecancelled, eafter, speechVars, tokVars>>

\* is_done, self.done.load (espeak.rs:155-156)
EspeakIsDoneLoad(t) ==
    /\ epc[t] = "is_done_load"
    /\ IF edone
       THEN /\ epc' = [epc EXCEPT ![t] = "idle"]
            /\ eret' = [eret EXCEPT ![t] = OkTrue]
       ELSE /\ epc' = [epc EXCEPT ![t] = "is_done_lock"]
            /\ eret' = eret
    /\ UNCHANGED <<eproc, ekills, elock, edone, ecall, eobserved, ecancelled,
                   eafter, speechVars, tokVars>>

\* is_done, self.child.try_lock() (espeak.rs:158, 171): Ok(false) when the
\* mutex is held.
EspeakIsDoneTryLock(t) ==
    /\ epc[t] = "is_done_lock"
    /\ IF elock = 0
       THEN /\ elock' = t
            /\ epc' = [epc EXCEPT ![t] = "is_done_wait"]
            /\ eret' = eret
       ELSE /\ elock' = elock
            /\ epc' = [epc EXCEPT ![t] = "idle"]
            /\ eret' = [eret EXCEPT ![t] = OkFalse]
    /\ UNCHANGED <<eproc, ekills, edone, ecall, eobserved, ecancelled,
                   eafter, speechVars, tokVars>>

\* Variant of is_done that stores the done flag and answers Ok(true)
\* whatever try_wait reports.
EspeakIsDoneTryWait_StoresAlways(t) ==
    /\ epc[t] = "is_done_wait"
    /\ edone' = TRUE
    /\ eobserved' = (eobserved \/ TryWait(eproc) # None)
    /\ eret' = [eret EXCEPT ![t] = OkTrue]
    /\ elock' = 0
    /\ epc' = [epc EXCEPT ![t] = "idle"]
    /\ UNCHANGED <<eproc, ekills, ecall, ecancelled, eafter, speechVars, tokVars>>

\* is_done, child.try_wait() under the guard (espeak.rs:160-167)
EspeakIsDoneTryWait(t) ==
    /\ epc[t] = "is_done_wait"
    /\ LET status == TryWait(eproc) IN
          /\ edone' = (edone \/ status # None)
          /\ eobserved' = (eobserved \/ status # None)
          /\ eret' = [eret EXCEPT ![t] = IF status # None THEN OkTrue ELSE OkFalse]
    /\ elock' = 0
    /\ epc' = [epc EXCEPT ![t] = "idle"]
    /\ UNCHANGED <<eproc, ekills, ecall, ecancelled, eafter, speechVars, tokVars>>

\* Variant of cancel that goes on without the lock when try_lock fails.
EspeakCancelTryLock_IgnoresLock(t) ==
    /\ epc[t] = "cancel_lock"
    /\ elock' = IF elock = 0 THEN t ELSE elock
    /\ epc' = [epc EXCEPT ![t] = "cancel_is_done"]
    /\ UNCHANGED <<eproc, ekills, edone, ecall, eret, eobserved, ecancelled,
                   eafter, speechVars, tokVars>>

\* cancel, self.child.try_lock() (espeak.rs:183-186): Err(CancelConflict)
\* when the mutex is held.
EspeakCancelTryLock(t) ==
    /\ epc[t] = "cancel_lock"
    /\ IF elock = 0
       THEN /\ elock' = t
            /\ epc' = [epc EXCEPT ![t] = "cancel_is_done"]
            /\ eret' = eret
       ELSE /\ elock' = elock
            /\ epc' = [epc EXCEPT ![t] = "idle"]
            /\ eret' = [eret EXCEPT ![t] = ErrCancelConflict]
    /\ UNCHANGED <<eproc, ekills, edone, ecall, eobserved, ecancelled,
                   eafter, speechVars, tokVars>>

\* self.is_done() as called by cancel (espeak.rs:188, 154-174): the done
\* flag, else try_lock on the mutex, which the caller itself holds.
EspeakIsDoneInCancel ==
    IF edone THEN OkTrue
    ELSE IF elock = 0
         THEN (IF TryWait(eproc) # None THEN OkTrue ELSE OkFalse)
         ELSE OkFalse

\* cancel, `if !self.is_done()?` (espeak.rs:188): with Ok(true) the call
\* returns Ok(()) and drops the guard (espeak.rs:193).
EspeakCancelIsDone(t) ==
    /\ epc[t] = "cancel_is_done"
    /\ IF EspeakIsDoneInCancel = OkTrue
       THEN /\ epc' = [epc EXCEPT ![t] = "idle"]
            /\ eret' = [eret EXCEPT ![t] = OkUnit]
            /\ edone' = TRUE
            /\ eobserved' = (eobserved \/ ~edone)
            /\ elock' = IF elock = t THEN 0 ELSE elock
            /\ ecancelled' = TRUE
       ELSE /\ epc' = [epc EXCEPT ![t] = "cancel_kill"]
            /\ UNCHANGED <<eret, edone, eobserved, elock, ecancelled>>
    /\ UNCHANGED <<eproc, ekills, ecall, eafter, speechVars, tokVars>>

\* cancel, child.kill() (espeak.rs:189)
EspeakCancelKill(t) ==
    /\ epc[t] = "cancel_kill"
    /\ ekills' = ekills + 1
    /\ epc' = [epc EXCEPT ![t] = "cancel_store"]
    /\ UNCHANGED <<eproc, elock, edone, ecall, eret, eobserved, ecancelled,
                   eafter, speechVars, tokVars>>

\* cancel, self.done.store(true), Ok(()) and the drop of the guard
\* (espeak.rs:190-194)
EspeakCancelStore(t) ==
    /\ epc[t] = "cancel_store"
    /\ edone' = TRUE
    /\ eret' = [eret EXCEPT ![t] = OkUnit]
    /\ elock' = IF elock = t THEN 0 ELSE elock
    /\ ecancelled' = TRUE
    /\ epc' = [epc EXCEPT ![t] = "idle"]
    /\ UNCHANGED <<eproc, ekills, ecall, eobserved, eafter, speechVars, tokVars>>

EspeakNext ==
    \/ EspeakProcExit
    \/ \E t \in Threads : EspeakCall(t)
    \/ \E t \in Threads : EspeakAwaitLock(t)
    \/ \E t \in Threads : EspeakAwaitWait(t)
    \/ \E t \in Threads : EspeakIsDoneLoad(t)
    \/ \E t \in Threads : EspeakIsDoneTryLock(t)
    \/ \E t \in Threads : EspeakIsDoneTryWait(t)
    \/ \E t \in Threads : EspeakCancelTryLock(t)
    \/ \E t \in Threads : EspeakCancelIsDone(t)
    \/ \E t \in Threads : EspeakCancelKill(t)
    \/ \E t \in Threads : EspeakCancelStore(t)

EspeakSpec == EspeakNew /\ [][EspeakNext]_vars

EspeakTypeOK ==
    /\ eproc \in {"alive", "success", "failure"}
    /\ ekills \in 0..1
    /\ elock \in {0} \cup Threads
    /\ edone \in BOOLEAN
    /\ epc \in [Threads -> EspeakPcs]
    /\ ecall \in [Threads -> {"none", "await_done", "is_done", "cancel"}]
    /\ eobserved \in BOOLEAN
    /\ ecancelled \in BOOLEAN
    /\ \A t \in Threads :
          epc[t] \in {"await_wait", "is_done_wait", "cancel_is_done",
                      "cancel_kill", "cancel_store"} => elock = t

----------------------------------------------------------------------------
\* Steps at which a call hands its result to the caller.
IsDoneReturns(t) == call[t] = "is_done" /\ pc[t] = "is_done_ret" /\ pc'[t] = "idle"
AwaitDoneReturns(t) == call[t] = "await_done" /\ pc[t] = "is_done_ret" /\ pc'[t] = "idle"
CancelReturns(t) == call[t] = "cancel" /\ pc[t] \in CancelPcs /\ pc'[t] = "idle"

\* C1: once the state is Done or Cancelled it never becomes Running again,
\* and once some is_done call has returned true no later is_done call
\* returns false.
C1_Monotonic ==
    [][ /\ (state.tag # "Running" => state'.tag # "Running")
        /\ \A t \in Threads :
              (seenTrue /\ IsDoneReturns(t)) => ret'[t] # OkFalse ]_vars

\* Two is_done calls have returned true, the later one after a cancel turned
\* the state into Cancelled.
C1_Witness ==
    /\ state = Cancelled
    /\ \E t, u \in Threads :
          /\ t # u
          /\ call[t] = "is_done" /\ ret[t] = OkTrue
          /\ call[u] = "is_done" /\ ret[u] = OkTrue

\* C2: Done and Cancelled are terminal: no operation changes a state that
\* is Done or Cancelled when the operation takes the lock into another state.
C2_TerminalStatesFinal ==
    [][ visible.tag # "Running" => visible' = visible ]_vars

\* C3: is_done, holding the lock, probes the process (Running becomes
\* Done(result) if the process has exited, nothing else changes) and then
\* returns Ok(false) for Running, Ok(true) for Done(success) and Cancelled,
\* and the exit-failure error for Done(failure).
C3_IsDoneContract ==
    [][ \A t \in Threads : call[t] = "is_done" =>
          /\ (pc[t] = "is_done_update" /\ pc'[t] # pc[t]) =>
                /\ lock = t
                /\ state' = IF state = Running /\ proc # "alive"
                            THEN Done(proc) ELSE state
          /\ (pc[t] = "is_done_ret" /\ pc'[t] # pc[t]) =>
                /\ lock = t
                /\ state' = state
                /\ pc'[t] = "idle"
                /\ ret'[t] = IF state = Running THEN OkFalse
                             ELSE IF state = Done("failure") THEN ErrExitFailure
                             ELSE OkTrue ]_vars

\* An is_done call has probed the exit of a failed process and returned the
\* exit-failure error.
C3_Witness ==
    \E t \in Threads :
       /\ call[t] = "is_done" /\ pc[t] = "idle"
       /\ ret[t] = ErrExitFailure
       /\ state = Done("failure")
       /\ seenTrue = FALSE

\* C4 as claimed: with a failed process and no cancel, once the exit-failure
\* error has been returned every later is_done call returns true.
C4_FailureReportedOnce ==
    [][ \A t \in Threads :
          (errSeen /\ ~cancelRequested /\ IsDoneReturns(t)) => ret'[t] = OkTrue ]_vars

\* C4 as amended: with a failed process and no cancel, once the exit-failure
\* error has been returned every later is_done or await_done call that
\* returns also returns the exit-failure error, and none returns true.
C4_FailureReportedAgain ==
    [][ \A t \in Threads :
          (errSeen /\ ~cancelRequested /\ (IsDoneReturns(t) \/ AwaitDoneReturns(t)))
             => ret'[t] = ErrExitFailure ]_vars

\* Two calls have returned the exit-failure error and no cancel was requested.
C4_Witness ==
    /\ ~cancelRequested
    /\ state = Done("failure")
    /\ \E t, u \in Threads :
          /\ t # u
          /\ call[t] = "is_done" /\ ret[t] = ErrExitFailure
          /\ call[u] \in {"is_done", "await_done"} /\ ret[u] = ErrExitFailure

\* C5: after an unsuccessful exit that happened before any cancel, is_done
\* and await_done report success only if the exit-failure error has been
\* returned by some call.
C5_FailureNeverDiscarded ==
    \A t \in Threads :
       (/\ failBeforeCancel
        /\ call[t] \in {"is_done", "await_done"}
        /\ ret[t] \in {OkTrue, OkUnit}) => errSeen

\* C6: an is_done call that finds the lock held returns Ok(false) and does
\* not panic.
C6_ContentionReportsFalse ==
    [][ \A t \in Threads :
          (call[t] = "is_done" /\ pc[t] = "is_done_lock" /\ lock # 0 /\ pc'[t] # pc[t])
             => (pc'[t] = "idle" /\ ret'[t] = OkFalse) ]_vars

\* C7: no call ever panics, in any interleaving.
C7_NoPanic == \A t \in Threads : pc[t] # "panicked"

\* C8: await_done returns Ok(()) only when the state is Done(success) or
\* Cancelled and the process has exited; while the state is Running it goes
\* to sleep and then polls is_done again.
C8_AwaitNotEarly ==
    [][ \A t \in Threads : call[t] = "await_done" =>
          /\ (pc[t] = "is_done_ret" /\ pc'[t] # pc[t]) =>
                /\ (pc'[t] = "idle" /\ ret'[t] = OkUnit) =>
                      (state' \in {Done("success"), Cancelled} /\ proc' # "alive")
                /\ state.tag = "Running" =>
                      (pc'[t] = "await_sleep" /\ ret'[t] = "pending")
          /\ (pc[t] = "await_sleep" /\ pc'[t] # pc[t]) => pc'[t] = "is_done_lock" ]_vars

\* An await_done call has returned Ok(()) for a process that exited
\* successfully and was never cancelled.
C8_Witness ==
    \E t \in Threads :
       /\ call[t] = "await_done" /\ pc[t] = "idle" /\ ret[t] = OkUnit
       /\ ~cancelRequested
       /\ state = Done("success")

\* C9: once the process has exited successfully, a pending await_done
\* eventually returns Ok(()).
C9_AwaitEventuallyReturns ==
    \A t \in Threads :
       (proc = "success" /\ call[t] = "await_done" /\ ret[t] = "pending")
          ~> (pc[t] = "idle" /\ ret[t] = OkUnit)

\* C10 as claimed: a cancel call that follows an earlier cancel call never
\* returns an error.
C10_SecondCancelNeverErrs ==
    [][ \A t \in Threads :
          (prevCancel # "none" /\ CancelReturns(t)) => ret'[t] = OkUnit ]_vars

\* C10 as amended: a cancel call that follows a cancel call which returned
\* Ok(()) never returns an error.
C10_CancelAfterOkCancel ==
    [][ \A t \in Threads :
          (prevCancel = OkUnit /\ CancelReturns(t)) => ret'[t] = OkUnit ]_vars

\* Two cancel calls, one after the other, have both returned Ok(()); the
\* later one sent no signal.
C10_Witness ==
    /\ prevCancel = OkUnit
    /\ state = Cancelled
    /\ signals = 0
    /\ \E t, u \in Threads :
          /\ t # u
          /\ call[t] = "cancel" /\ pc[t] = "idle" /\ ret[t] = OkUnit
          /\ call[u] = "cancel" /\ pc[u] = "idle" /\ ret[u] = OkUnit

\* Sum of the elements of a sequence of numbers.
RECURSIVE SumSeq(_)
SumSeq(q) == IF q = <<>> THEN 0 ELSE q[1] + SumSeq(Tail(q))

\* C11: a cancel call made when the state is already Done or Cancelled
\* returns Ok(()), sends no signal, does not sleep and leaves the state as
\* it was.
C11_CancelOnTerminalIsNoOp ==
    [][ \A t \in Threads :
          (CancelReturns(t) /\ visible.tag # "Running") =>
             /\ ret'[t] = OkUnit
             /\ signals' = 0
             /\ slices' = <<>>
             /\ state' = visible ]_vars

\* C12: after a cancel call has returned Ok(()), every later is_done call
\* ends with Ok(true) and every later await_done call with Ok(()).
C12_DoneAfterCancel ==
    [][ \A t \in Threads :
          (/\ prevCancel = OkUnit
           /\ call[t] \in {"is_done", "await_done"}
           /\ pc[t] \in IsDonePcs
           /\ pc'[t] \in {"idle", "panicked"})
             => ret'[t] = IF call[t] = "is_done" THEN OkTrue ELSE OkUnit ]_vars

C14_TimeoutLeavesRunning ==
    [][ \A t \in Threads :
          /\ (pc[t] = "cancel_loop" /\ state = Running /\ remaining = None
                /\ pc'[t] # pc[t]) =>
                /\ pc'[t] = "idle"
                /\ ret'[t] = ErrCancelIgnored
                /\ state' = Running
                /\ slices' = slices
                /\ lock' = 0
          /\ (CancelReturns(t) /\ state = Running) =>
                /\ ret'[t] = ErrCancelIgnored
                /\ remaining = None
                /\ SumSeq(slices) = CANCEL_GRACE_TIMEOUT ]_vars

\* A cancel call has returned the cancellation-unconfirmed error and left
\* the state Running, although the process has exited in the meantime.
C14_Witness ==
    /\ state = Running
    /\ proc # "alive"
    /\ lock = 0
    /\ \E t \in Threads : call[t] = "cancel" /\ pc[t] = "idle" /\ ret[t] = ErrCancelIgnored

\* C15: the wait slices of one cancel call are round(2.3^k) ms for
\* k = 1, 2, ..., the last one capped by the remaining time, and their sum
\* never exceeds CANCEL_GRACE_TIMEOUT.
C15_SlicesWithinCeiling ==
    LET expected == <<2, 5, 12, 28, 64, 148, 41>>
    IN /\ SumSeq(slices) <= CANCEL_GRACE_TIMEOUT
       /\ Len(slices) <= Len(expected)
       /\ \A k \in 1..Len(slices) : slices[k] = expected[k]

\* A cancel call has slept the whole grace period.
C15_Witness ==
    /\ SumSeq(slices) = CANCEL_GRACE_TIMEOUT
    /\ remaining = None
    /\ \E t \in Threads : pc[t] = "cancel_sleep"

\* C16 as claimed: every wait slice of one cancel call is longer than the
\* slice before it.
C16_SlicesIncrease ==
    \A k \in 2..Len(slices) : slices[k] > slices[k - 1]

\* C16 as amended: every wait slice of one cancel call is longer than the
\* slice before it, except the final slice, which is capped by the time
\* remaining under the ceiling.
C16_SlicesIncreaseUntilCapped ==
    \A k \in 2..Len(slices) :
       \/ slices[k] > slices[k - 1]
       \/ (k = Len(slices) /\ SumSeq(slices) = CANCEL_GRACE_TIMEOUT)

\* A cancel call has slept seven slices, the capped last one shorter than
\* the sixth.
C16_Witness ==
    /\ Len(slices) = 7
    /\ slices[7] < slices[6]
    /\ slices[6] > slices[5]

\* C17: a cancel call that has sent the signal and then sees the exit sets
\* the state to Cancelled and returns Ok(()) whatever the exit status; an
\* is_done call afterwards returns Ok(true).
C17_KilledExitIsCancelled ==
    [][ \A t \in Threads :
          /\ (pc[t] = "cancel_match" /\ signals = 1 /\ state.tag = "Done"
                /\ pc'[t] # pc[t]) =>
                (state' = Cancelled /\ pc'[t] = "idle" /\ ret'[t] = OkUnit)
          /\ (IsDoneReturns(t) /\ signals = 1 /\ prevCancel = OkUnit) =>
                ret'[t] = OkTrue ]_vars

\* After a cancel call that sent the signal, the process exited with a
\* failure status, the state is Cancelled and is_done has returned Ok(true).
C17_Witness ==
    /\ state = Cancelled
    /\ proc = "failure"
    /\ signals = 1
    /\ prevCancel = OkUnit
    /\ \E t \in Threads : call[t] = "is_done" /\ pc[t] = "idle" /\ ret[t] = OkTrue

\* C18: a failure of try_wait or of kill is returned to the caller as a
\* typed error (CannotAwait, CannotCancel); the call does not panic.
C18_IoFailureReturned ==
    [][ \A t \in Threads :
          (ioFailure = "none" /\ ioFailure' # "none" /\ pc'[t] # pc[t]) =>
             /\ pc'[t] = "idle"
             /\ ret'[t] = IF ioFailure' = "kill" THEN ErrCannotCancel
                          ELSE ErrCannotAwait ]_vars

C20_NoLockAcrossSleep ==
    \A t \in Threads : pc[t] \in {"await_sleep", "cancel_sleep"} => lock # t

\* C21: a cancel call that follows one which returned the
\* cancellation-unconfirmed error probes the state again, signals the process
\* again if the state is still Running, and starts its wait loop with the
\* first attempt and the whole grace period, whatever the earlier call used.
C21_FreshGraceAfterTimeout ==
    [][ \A t \in Threads :
          (prevCancel = ErrCancelIgnored /\ call[t] = "cancel" /\ pc'[t] # pc[t]) =>
             /\ pc[t] = "cancel_update" =>
                   /\ state' = (IF state = Running /\ proc # "alive"
                                THEN Done(proc) ELSE state)
                   /\ state' = Running => pc'[t] = "cancel_kill"
             /\ pc[t] = "cancel_kill" =>
                   (signals = 0 /\ signals' = 1 /\ pc'[t] = "cancel_recheck")
             /\ (pc[t] \in {"cancel_update", "cancel_recheck"} /\ pc'[t] = "cancel_loop") =>
                   /\ attempt' = 1
                   /\ remaining' = Some(CANCEL_GRACE_TIMEOUT)
                   /\ slices' = <<>>
             /\ (pc[t] = "cancel_loop" /\ pc'[t] = "idle") =>
                   SumSeq(slices) = CANCEL_GRACE_TIMEOUT ]_vars

\* A cancel call made after one that returned the cancellation-unconfirmed
\* error has signalled the process again and has itself waited the whole
\* grace period.
C21_Witness ==
    /\ prevCancel = ErrCancelIgnored
    /\ signals = 1
    /\ SumSeq(slices) = CANCEL_GRACE_TIMEOUT
    /\ \E t, u \in Threads :
          /\ t # u
          /\ call[u] = "cancel" /\ pc[u] = "idle" /\ ret[u] = ErrCancelIgnored
          /\ call[t] = "cancel" /\ pc[t] = "cancel_sleep"

\* The number of occurrences of the character c in the string s.
Occurrences(s, c) == Cardinality({i \in DOMAIN s : s[i] = c})

\* C22: the pause of a run with p periods and nl newlines is Paragraph when
\* nl > 1 and p < 2; otherwise there is no pause for p = 0, Sentence for
\* p = 1, Paragraph for p = 2 and Seconds(p - 2) for p >= 3.
C22_PauseDurationMapping ==
    [][ (tpc = "leading_pause" /\ tpc' # tpc) =>
          LET run == SubSeq(rest, 1, Len(rest) - Len(rest'))
              p == Occurrences(run, ".")
              nl == Occurrences(run, "\n")
          IN IF nl > 1 /\ p < 2
             THEN tpc' = "idle" /\ result' = <<Pause(Paragraph)>>
             ELSE /\ p = 0 => (tpc' = "text" /\ tokens' = tokens)
                  /\ p = 1 => (tpc' = "idle" /\ result' = <<Pause(Sentence)>>)
                  /\ p = 2 => (tpc' = "idle" /\ result' = <<Pause(Paragraph)>>)
                  /\ p >= 3 => (tpc' = "idle" /\ result' = <<Pause(Seconds(p - 2))>>) ]_vars

\* A run of two newlines around one period gave Paragraph, a single period
\* after the text gave Sentence.
C22_Witness ==
    /\ source = <<"\n", ".", "\n", "a", ".">>
    /\ tokens = <<Pause(Paragraph), Normal(<<"a">>), Pause(Sentence)>>

\* The string s without the whitespace at its two ends.
Trimmed(s) ==
    LET keep == {i \in DOMAIN s : s[i] \notin {" ", "\n"}}
    IN IF keep = {} THEN <<>>
       ELSE SubSeq(s, CHOOSE i \in keep : \A j \in keep : i <= j,
                      CHOOSE i \in keep : \A j \in keep : i >= j)

\* The string s cut at every character of delims, each piece without the
\* whitespace at its ends, the pieces put together again in order.
RECURSIVE TextBetween(_, _)
TextBetween(s, delims) ==
    IF s = <<>> THEN <<>>
    ELSE LET cuts == {i \in DOMAIN s : s[i] \in delims}
             n == IF cuts = {} THEN Len(s) + 1
                  ELSE CHOOSE i \in cuts : \A j \in cuts : i <= j
         IN Trimmed(SubSeq(s, 1, n - 1)) \o TextBetween(SubSeq(s, n + 1, Len(s)), delims)

\* The texts of the Normal and Emphasised tokens of q, put together in order.
RECURSIVE TextsOf(_)
TextsOf(q) ==
    IF q = <<>> THEN <<>>
    ELSE (IF q[1].tag = "Pause" THEN <<>> ELSE q[1].text) \o TextsOf(Tail(q))

\* The tokenizer has handed out every token of its source.
Finished == tpc = "idle" /\ rest = <<>>

\* C23 as claimed: the texts of the emitted Normal and Emphasised tokens, in
\* order, are the source text without its periods and newlines and without
\* the whitespace at the boundaries; every other character is kept.
C23_OnlyPausesRemoved ==
    Finished => TextsOf(tokens) = TextBetween(source, {".", "\n"})

\* C23 as amended: the texts of the emitted Normal and Emphasised tokens, in
\* order, are the source text without its periods, newlines and emphasis
\* delimiters and without the whitespace next to them and at the two ends;
\* every other character is kept, in its place.
C23_OnlyDelimitersRemoved ==
    Finished => TextsOf(tokens) = TextBetween(source, {".", "\n", "_"})

\* A source with a blank inside a text run and an emphasis delimiter: the
\* blank is kept, the delimiter is not.
C23_Witness ==
    /\ Finished
    /\ source = <<"a", " ", "b", "_", "a">>
    /\ tokens = <<Normal(<<"a", " ", "b">>), Emphasised(<<"a">>)>>

\* C24 as claimed: "plain ... _emph_. .." gives Normal("plain"),
\* Pause(Seconds(1)), Emphasised("emph"), Pause(Sentence), Pause(Paragraph).
C24_PlainEmphFiveTokens ==
    (Finished /\ source = PlainEmph) =>
       tokens = <<Normal(<<"p", "l", "a", "i", "n">>), Pause(Seconds(1)),
                  Emphasised(<<"e", "m", "p", "h">>),
                  Pause(Sentence), Pause(Paragraph)>>

\* C24 as amended: "plain ... _emph_. .." gives Normal("plain"),
\* Pause(Seconds(1)), Emphasised("emph"), Pause(Seconds(1)): the period
\* after the closing delimiter and the trailing ".." are one run of three
\* periods.
C24_PlainEmphFourTokens ==
    (Finished /\ source = PlainEmph) =>
       tokens = <<Normal(<<"p", "l", "a", "i", "n">>), Pause(Seconds(1)),
                  Emphasised(<<"e", "m", "p", "h">>), Pause(Seconds(1))>>

\* "plain ... _emph_. .." has been tokenized to its end, and the last call
\* of next() has returned None.
C24_Witness ==
    /\ Finished
    /\ source = PlainEmph
    /\ exhausted
    /\ Len(tokens) = 4

\* C25: one step consumes a whole run of periods, newlines and other
\* whitespace, up to the next character of another kind, and no period or
\* newline of the same run was consumed before it; the step yields at most
\* one Pause token, computed from all periods and newlines of the run, also
\* those that whitespace or newlines separate.
C25_RunIsOneStep ==
    [][ (tpc = "leading_pause" /\ tpc' # tpc) =>
          LET k == Len(source) - Len(rest)
              n == Len(rest) - Len(rest')
              run == SubSeq(rest, 1, n)
              p == Occurrences(run, ".")
              nl == Occurrences(run, "\n")
              d == IF p >= 3 THEN Seconds(p - 2)
                   ELSE IF p = 2 \/ nl > 1 THEN Paragraph ELSE Sentence
          IN /\ rest = SubSeq(source, k + 1, Len(source))
             /\ rest' = SubSeq(rest, n + 1, Len(rest))
             /\ \A i \in 1..n : run[i] \in {".", "\n", " "}
             /\ rest' # <<>> => rest'[1] \notin {".", "\n", " "}
             /\ n > 0 =>
                   \A j \in 1..k :
                      (\A i \in j..k : source[i] \in {".", "\n", " "}) => source[j] = " "
             /\ IF p >= 1 \/ nl > 1
                THEN tpc' = "idle" /\ tokens' = Append(tokens, Pause(d))
                ELSE tpc' = "text" /\ tokens' = tokens ]_vars

\* Two periods with a blank and a newline between them gave one
\* Pause(Paragraph); the text after the run followed.
C25_Witness ==
    /\ source = <<".", " ", "\n", ".", "a">>
    /\ tokens = <<Pause(Paragraph), Normal(<<"a">>)>>

\* C26: once the last emphasis delimiter of a source with an odd number of
\* them has been consumed, the flag stays Emphasised to the end of the input:
\* every pause run still yields its Pause token, and every text run up to
\* the next period, newline or the end is emitted whole, less the whitespace
\* at its ends, as an Emphasised token.  "hi _there" gives Normal("hi"),
\* Emphasised("there"); "holodrio _there." gives Normal("holodrio"),
\* Emphasised("there"), Pause(Sentence).
C26_OpenEmphasisToEnd ==
    [][ /\ (Finished' /\ source = HiThere) =>
             tokens' = <<Normal(<<"h", "i">>), Emphasised(<<"t", "h", "e", "r", "e">>)>>
        /\ (Finished' /\ source = HolodrioThereDot) =>
             tokens' = <<Normal(<<"h", "o", "l", "o", "d", "r", "i", "o">>),
                         Emphasised(<<"t", "h", "e", "r", "e">>), Pause(Sentence)>>
        /\ (Occurrences(source, "_") % 2 = 1 /\ Occurrences(rest, "_") = 0) =>
          /\ style = "Emphasised" /\ style' = "Emphasised"
          /\ tpc = "leading_pause" =>
                LET run == SubSeq(rest, 1, Len(rest) - Len(rest'))
                IN (Occurrences(run, ".") >= 1 \/ Occurrences(run, "\n") > 1) =>
                      /\ Len(tokens') = Len(tokens) + 1
                      /\ tokens'[Len(tokens')].tag = "Pause"
          /\ tpc = "text" =>
                LET cuts == {i \in DOMAIN rest : rest[i] \in {".", "\n"}}
                    n == IF cuts = {} THEN Len(rest) + 1
                         ELSE CHOOSE i \in cuts : \A j \in cuts : i <= j
                    text == Trimmed(SubSeq(rest, 1, n - 1))
                IN /\ rest' = SubSeq(rest, n, Len(rest))
                   /\ tokens' = IF rest = <<>> THEN tokens
                                ELSE Append(tokens, Emphasised(text))
                   /\ rest # <<>> => text # <<>> ]_vars

\* An emphasis block that is never closed: the text before the pause and
\* the text after it are both Emphasised.
C26_Witness ==
    /\ Finished
    /\ source = <<"a", "_", "b", ".", "a">>
    /\ tokens = <<Normal(<<"a">>), Emphasised(<<"b">>), Pause(Sentence),
                  Emphasised(<<"a">>)>>

\* A call of next() returns.
NextReturns == tpc # "idle" /\ tpc' = "idle"

\* C27: whenever next() returns None the rest is empty, and once next() has
\* returned None every later call returns None and changes nothing.
C27_Fused ==
    [][ NextReturns =>
          /\ result' = None => rest' = <<>>
          /\ exhausted => (result' = None /\ tokens' = tokens
                             /\ rest' = <<>> /\ style' = style) ]_vars

\* A source of one blank: the first call of next() returned None, and a
\* call that began on the empty rest has returned None again.
C27_Witness ==
    /\ source = <<" ">>
    /\ exhausted
    /\ tpc = "idle"
    /\ restAtCall = <<>>
    /\ result = None
    /\ tokens = <<>>

\* C28: no Normal or Emphasised token has an empty text; a step whose text
\* trims to nothing returns no text token.
C28_NoEmptyText ==
    /\ \A i \in DOMAIN tokens : tokens[i].tag # "Pause" => tokens[i].text # <<>>
    /\ (result # None /\ result[1].tag # "Pause") => result[1].text # <<>>

\* Blanks between two emphasis delimiters and a blank at the end of the
\* input gave no token: the only token is the text before them.
C28_Witness ==
    /\ Finished
    /\ exhausted
    /\ source = <<"a", "_", " ", "_", " ">>
    /\ tokens = <<Normal(<<"a">>)>>

\* C29: tokenizing never panics: consume_text never finds a period or a
\* newline at the start of the rest, also when it is entered again after an
\* emphasis delimiter.
C29_NoUnreachable == tpc # "panicked"

\* After an emphasis delimiter, next() was entered again and
\* consume_leading_pause took the period that followed the delimiter.
C29_Witness ==
    /\ source = <<"_", ".", "\n", "_", "a">>
    /\ restAtCall = source
    /\ tokens = <<Pause(Sentence)>>
    /\ style = "Emphasised"
    /\ tpc = "idle"

\* C30: the rest only ever loses characters at its front; consume_text on a
\* non-empty rest and every call of next() on a non-empty rest take at
\* least one character, so every call of next() returns and no more tokens
\* are emitted than characters are consumed.
C30_CursorAdvances ==
    /\ [][ /\ \E n \in 0..Len(rest) : rest' = SubSeq(rest, n + 1, Len(rest))
           /\ (tpc = "text" /\ rest # <<>>) => Len(rest') < Len(rest)
           /\ (NextReturns /\ restAtCall # <<>>) => Len(rest') < Len(restAtCall)
           /\ Len(tokens') <= Len(source) - Len(rest') ]_vars
    /\ (tpc \in {"next", "leading_pause", "text"}) ~> (tpc = "idle")

\* Five characters gave five tokens: no input yields more tokens than it
\* has characters, and this one yields as many.
C30_Witness ==
    /\ Finished
    /\ source = <<"a", ".", "a", ".", "a">>
    /\ Len(tokens) = 5

\* C31: no token text contains the emphasis delimiter; the flag is
\* Emphasised exactly when an odd number of delimiters has been consumed,
\* and a text token is Emphasised exactly when an odd number of delimiters
\* stands before its text in the source, Normal when the number is even.
C31_DelimitersAreStructural ==
    [][ LET before == SubSeq(source, 1, Len(source) - Len(rest))
            odd == Occurrences(before, "_") % 2 = 1
        IN /\ rest = SubSeq(source, Len(source) - Len(rest) + 1, Len(source))
           /\ style = (IF odd THEN "Emphasised" ELSE "Unemphasised")
           /\ (tpc = "text" /\ tpc' = "next") =>
                 /\ rest[1] = "_" /\ rest' = Tail(rest)
                 /\ style' # style
                 /\ tokens' = tokens
           /\ (tpc = "text" /\ tokens' # tokens) =>
                 LET token == tokens'[Len(tokens')]
                 IN /\ token.tag = (IF odd THEN "Emphasised" ELSE "Normal")
                    /\ Occurrences(token.text, "_") = 0
                    /\ Occurrences(SubSeq(rest, 1, Len(rest) - Len(rest')), "_") = 0
           /\ tpc # "text" => style' = style ]_vars

\* Text before, inside and after a closed emphasis block.
C31_Witness ==
    /\ Finished
    /\ source = <<"a", "_", "b", "_", "a">>
    /\ tokens = <<Normal(<<"a">>), Emphasised(<<"b">>), Normal(<<"a">>)>>

\* C32: the empty string and a string of blanks only give no token.
C32_BlankGivesNothing ==
    (\A i \in DOMAIN source : source[i] = " ") =>
       (tokens = <<>> /\ result = None /\ tpc # "panicked")

\* A source of three blanks has been tokenized to its end without a token.
C32_Witness ==
    /\ source = <<" ", " ", " ">>
    /\ Finished
    /\ exhausted
    /\ tokens = <<>>

\* C35: a termination signal is sent only by a cancel call, at its kill
\* step, with the state Running after the call's first probe, and at most
\* once per call; is_done and await_done send none, and the wait loop of
\* cancel sends no second one.
C35_OneSignalPerCancel ==
    [][ /\ signals' # signals =>
             \/ (signals' = 0 /\ \E t \in Threads : pc[t] = "idle" /\ pc'[t] = "cancel_lock")
             \/ /\ signals = 0 /\ signals' = 1
                /\ state = Running
                /\ \E t \in Threads :
                      /\ call[t] = "cancel" /\ lock = t
                      /\ pc[t] = "cancel_kill" /\ pc'[t] = "cancel_recheck"
        /\ \A t \in Threads :
             (pc[t] = "cancel_update" /\ pc'[t] = "cancel_kill") => state' = Running ]_vars

\* A cancel call has sent its one signal and has since slept three slices
\* with the process still running.
C35_Witness ==
    /\ signals = 1
    /\ proc = "alive"
    /\ state = Running
    /\ Len(slices) = 3
    /\ \E t \in Threads : call[t] = "cancel" /\ pc[t] = "cancel_loop"

\* C36: the state becomes Cancelled only from Done, never from Running; a
\* cancel call returns Ok(()) only when the process has exited, and so does
\* an is_done call that returns Ok(true).
C36_SuccessNeverGuessed ==
    [][ /\ (state' = Cancelled /\ state # Cancelled) => (state.tag = "Done" /\ proc # "alive")
        /\ \A t \in Threads :
             /\ (CancelReturns(t) /\ ret'[t] = OkUnit) => (proc # "alive" /\ state' = Cancelled)
             /\ (IsDoneReturns(t) /\ ret'[t] = OkTrue) => proc # "alive" ]_vars

\* A cancel call waited out part of its grace period, saw the exit and
\* returned Ok(()); is_done has returned Ok(true) since.
C36_Witness ==
    /\ state = Cancelled
    /\ proc = "success"
    /\ prevCancel = OkUnit
    /\ Len(slices) >= 1
    /\ \E t \in Threads : call[t] = "is_done" /\ pc[t] = "idle" /\ ret[t] = OkTrue

\* C38: after the signal the next step of cancel probes the process; when
\* that probe sees the exit, the call sets Cancelled and returns Ok(())
\* without sleeping a single slice.
C38_ImmediateRecheck ==
    [][ \A t \in Threads : (call[t] = "cancel" /\ pc'[t] # pc[t]) =>
          /\ pc[t] = "cancel_kill" => pc'[t] = "cancel_recheck"
          /\ pc[t] = "cancel_recheck" =>
                /\ slices = <<>>
                /\ state' = (IF proc = "alive" THEN Running ELSE Done(proc))
                /\ pc'[t] = "cancel_loop"
          /\ (pc[t] = "cancel_loop" /\ attempt = 1 /\ state.tag = "Done") =>
                (slices = <<>> /\ pc'[t] = "cancel_match" /\ slices' = <<>>)
          /\ (pc[t] = "cancel_match" /\ attempt = 1 /\ slices = <<>> /\ state.tag = "Done") =>
                /\ pc'[t] = "idle" /\ ret'[t] = OkUnit
                /\ state' = Cancelled /\ slices' = <<>> ]_vars

\* A cancel call sent the signal, saw the exit at once and returned Ok(())
\* without a wait slice.
C38_Witness ==
    /\ signals = 1
    /\ slices = <<>>
    /\ state = Cancelled
    /\ \E t \in Threads : call[t] = "cancel" /\ pc[t] = "idle" /\ ret[t] = OkUnit

\* C37: a handle made around a process that has exited starts in
\* Done(result), one around a running process starts in Running, none starts
\* in Cancelled; with the exit already recorded by new, the probes of is_done
\* and await_done change nothing.
C37_NewProbesOnce ==
    /\ (\A t \in Threads : call[t] = "none") =>
          state = (IF procAtNew = "alive" THEN Running ELSE Done(procAtNew))
    /\ (procAtNew # "alive" /\ ~cancelRequested) => state = Done(procAtNew)

\* The process had failed before new; the first is_done call has returned
\* the exit-failure error from the state that new recorded.
C37_Witness ==
    /\ procAtNew = "failure"
    /\ state = Done("failure")
    /\ ~cancelRequested
    /\ \E t \in Threads :
          /\ call[t] = "is_done" /\ pc[t] = "idle" /\ ret[t] = ErrExitFailure
          /\ \A u \in Threads \ {t} : call[u] = "none"

\* C33: an espeak cancel call that finds the child lock held by a thread
\* blocked in await_done returns the CancelConflict error, sends no signal
\* and leaves the done flag as it is.
C33_CancelConflict ==
    [][ \A t \in Threads :
          (/\ epc[t] = "cancel_lock" /\ epc'[t] # epc[t]
           /\ \E u \in Threads \ {t} : ecall[u] = "await_done" /\ epc[u] = "await_wait") =>
             /\ epc'[t] = "idle"
             /\ eret'[t] = ErrCancelConflict
             /\ ekills' = ekills
             /\ edone' = edone
             /\ elock' = elock ]_vars

\* One thread is blocked in await_done on a running process; the cancel
\* call of another has returned CancelConflict, no signal was sent and the
\* done flag is unset.
C33_Witness ==
    /\ eproc = "alive"
    /\ ekills = 0
    /\ ~edone
    /\ \E t, u \in Threads :
          /\ t # u
          /\ ecall[u] = "await_done" /\ epc[u] = "await_wait"
          /\ ecall[t] = "cancel" /\ epc[t] = "idle" /\ eret[t] = ErrCancelConflict

\* An espeak await_done call returns.
EspeakAwaitReturns(t) ==
    ecall[t] = "await_done" /\ epc[t] = "await_wait" /\ epc'[t] = "idle"

C39_DoneOnlyAfterExit ==
    /\ edone => (eobserved /\ eproc # "alive")
    /\ \A t \in Threads :
          (ecall[t] = "is_done" /\ eret[t] = OkTrue) => (eobserved /\ eproc # "alive")

\* C39 as amended: the done flag is set, and is_done returns Ok(true), only
\* after try_wait or wait has reported the exit of the process or after a
\* cancel call has sent the kill signal; a reported exit is a real one.
C39_DoneAfterExitOrKill ==
    /\ eobserved => eproc # "alive"
    /\ edone => (eobserved \/ ekills > 0)
    /\ \A t \in Threads :
          (ecall[t] = "is_done" /\ eret[t] = OkTrue) => (eobserved \/ ekills > 0)

\* cancel has sent the kill signal and set the done flag, the process is
\* still running and no exit was reported, and is_done has returned Ok(true).
C39_Witness ==
    /\ eproc = "alive"
    /\ ekills = 1
    /\ edone /\ ~eobserved
    /\ \E t \in Threads :
          ecall[t] = "is_done" /\ epc[t] = "idle" /\ eret[t] = OkTrue

\* C40: an espeak cancel call sends the kill signal only to a process that
\* is still running.
C40_KillOnlyWhileRunning ==
    [][ ekills' # ekills => eproc = "alive" ]_vars

====
